---- MODULE Spec2Model ----
(***************************************************************************)
(* Conversation turn orchestration of src/app/page.tsx (component Home):   *)
(* fetchAnswer, handleResponse, handleFunctionCall, handleError,           *)
(* handleSubmit, handleResubmit, handleCleanMessage, summarize, speech and *)
(* handleStopTalking, with the message store, the stream consumer, the     *)
(* speech queue, the audio controller and the upstream services they talk  *)
(* to.                                                                     *)
(*                                                                         *)
(* The awaits of the source are the suspension points: an action is the    *)
(* code that runs from one answer of the outside (chat, a chunk, the end   *)
(* of a stream, the gateway) to the next await on the outside.  The        *)
(* consumer of a ReadableStream takes a chunk in the task that enqueues    *)
(* it, and fetch with json() is one answer of the gateway.                 *)
(* The user-driven handlers are enabled only while no conversation turn    *)
(* and no dispatch is in flight (spec section 5: the caller does not       *)
(* submit overlapping turns); a summarization request may still be in      *)
(* flight.  chat, fetch and json() raise Error objects only.               *)
(*                                                                         *)
(* The specifications share the actions.  Spec has every handler of the    *)
(* conversation, with the speech tasks enqueued and started but the        *)
(* synthesis not answering within the run.  SpeechSpec lets the speech     *)
(* tasks, the audio controller and the stop button make progress, over     *)
(* typed submissions and streams of text and single function calls;        *)
(* SpeechLiveSpec is SpeechSpec with the synthesis and the playback        *)
(* answering.  HistorySpec has the runs with up to four requests, in chat  *)
(* mode, with streams that may break, for the summarization.  PayloadSpec  *)
(* has one function call with any set of arguments, AuthSpec the settings  *)
(* of the authentication changing during a run, RegenSpec two turns of the *)
(* user with the regeneration after an error, and VoiceLiveSpec one        *)
(* submission in voice mode with the outside answering.                    *)
(***************************************************************************)
EXTENDS Integers, Sequences, FiniteSets, TLC

\* ------------------------------------------------------------------ bounds
MaxOps == 1        \* turns the user issues in one run (submit, regenerate)
MaxTurns == 3      \* requests issued in one run (all kinds of turn)
MaxCalls == 2      \* function calls in one run, over all batches
MaxChunks == 2     \* chunks in one run, over all streams
MaxHist == 1       \* the non-zero value of the maxHistoryLength setting

\* ------------------------------------------------------------ sequences
Last(s) == s[Len(s)]

Front(s) == SubSeq(s, 1, Len(s) - 1)

RemoveAt(s, i) == SubSeq(s, 1, i - 1) \o SubSeq(s, i + 1, Len(s))

Range(s) == {s[i] : i \in 1..Len(s)}

Ids(ms) == [i \in 1..Len(ms) |-> ms[i].id]

\* lodash findIndex(list, {id}): first index with that id, 0 for -1
FindIndex(ms, id) ==
    IF \E i \in 1..Len(ms) : ms[i].id = id
    THEN CHOOSE i \in 1..Len(ms) : ms[i].id = id /\ \A j \in 1..(i - 1) : ms[j].id # id
    ELSE 0

\* ------------------------------------------------------------- messages
\* A message: id, role and its single part.  part is "text", "inlineData",
\* "functionCall" or "functionResponse"; text is the sequence of text deltas
\* of a text part (<<>> is the empty string); call is the function name.
NoCall == <<>>

Msg(id, role, part, text, call) ==
    [id |-> id, role |-> role, part |-> part, text |-> text, call |-> call]

\* store action add(message)
addMessage(ms, m) == Append(ms, m)

\* store action revoke(id): the message with that id leaves the log
revoke(ms, id) ==
    LET i == FindIndex(ms, id) IN IF i = 0 THEN ms ELSE RemoveAt(ms, i)

\* store action clear()
clearMessage(ms) == <<>>

\* ------------------------------------------------------------- plugins
\* A function name is pluginId_operationId, held as its "_"-separated
\* segments.  One plugin is installed, with one operation.
Installed == {"p1"}

Operations == [p1 |-> {<<"op1">>}]

CallNames == {<<"p1", "op1">>, <<"p1", "op2">>, <<"p2", "op1">>}

\* call.name.split('_')[0]
PluginIdOf(name) == name[1]

\* call.name.substring(1 + pluginId.length)
OperationIdOf(name) == Tail(name)

\* installed[pluginId] then findOperationById(manifest.openapi, operationId):
\* "crash" when the manifest is undefined (reading .openapi throws),
\* "missing" when the operation is not found, "ok" otherwise.
Resolve(name) ==
    IF PluginIdOf(name) \notin Installed THEN "crash"
    ELSE IF OperationIdOf(name) \notin Operations[PluginIdOf(name)] THEN "missing"
    ELSE "ok"

\* operation.parameters of the one operation: a parameter in each location
\* an OpenAPI document declares (query, path, header, cookie) and one in
\* formData.
Parameters ==
    {[name |-> "q", in |-> "query"], [name |-> "p", in |-> "path"],
     [name |-> "f", in |-> "formData"], [name |-> "h", in |-> "header"],
     [name |-> "c", in |-> "cookie"]}

\* The names call.args can have: those of the parameters and one more
ArgNames == {"q", "p", "f", "h", "c", "x"}

\* the optional maps of the gateway payload
PayloadKeys == {"formData", "headers", "path", "query", "cookie"}

\* The loop over entries(call.args): the argument goes into the map whose
\* name parameter.in is compared with, for each parameter of its name.
\* An argument's value goes with its name.
Classify(args, parameters, key) ==
    {name \in args : \E parameter \in parameters :
                        parameter.name = name /\ parameter.in = key}

\* if (!isEmpty(map)) payload[key] = map, for the five maps
GatewayPayload(args, parameters) ==
    [key \in {k \in PayloadKeys : Classify(args, parameters, k) # {}} |->
        Classify(args, parameters, key)]

\* payload before it is built
NoPayload == <<>>

\* The batches a chunk can carry.  The loop of handleFunctionCall ends at the
\* first call that does not resolve, so such a call is the last of its batch.
Batches ==
    {b \in UNION {[1..n -> CallNames] : n \in 1..MaxCalls} :
        \A i \in 1..(Len(b) - 1) : Resolve(b[i]) = "ok"}

\* A chunk of function calls that no callback takes is never read: one batch
\* stands for all of them.
UnreadBatches == {<<n>> : n \in {c \in CallNames : Resolve(c) = "ok"}}

\* --------------------------------------------------------- error message
NoError == <<>>

\* `${code ?? '400'}: ${message}`, code 0 standing for undefined
FormatError(message, code) == <<IF code = 0 THEN 400 ELSE code, ": ", message>>

\* ---------------------------------------------------------------- state
VARIABLES
    messages,          \* useMessageStore messages, mirrored by messagesRef.current
    summary,           \* useMessageStore summary: [ids, content]
    nextId,            \* number of ids nanoid() has handed out
    errorMessage,      \* useState errorMessage
    status,            \* useState status
    message,           \* useState message: the live in-progress text
    talkMode,          \* useSettingStore talkMode
    maxHistoryLength,  \* useSettingStore maxHistoryLength
    turns,             \* the fetchAnswer calls made so far, in order of issue
    disps,             \* the handleFunctionCall calls made so far
    errLog,            \* the handleError calls made so far (history)
    speechSilence,     \* useState speechSilence
    speechQueue,       \* speechQueue.current: the turn whose handleResponse made it
    tasks,             \* the speech tasks enqueued so far, in order of enqueue
    audio,             \* audioStreamRef.current: the buffers it holds, active first
    apiKey,            \* useSettingStore apiKey
    apiProxy,          \* useSettingStore apiProxy
    password           \* useSettingStore password

speechVars == <<speechSilence, speechQueue, tasks, audio>>

authVars == <<apiKey, apiProxy, password>>

vars ==
    <<messages, summary, nextId, errorMessage, status, message, talkMode,
      maxHistoryLength, turns, disps, errLog, speechSilence, speechQueue, tasks, audio,
      apiKey, apiProxy, password>>

\* The part of the state that handleError and the store actions work on,
\* threaded through the synchronous code of one action.
Globals ==
    [messages |-> messages, nextId |-> nextId, errorMessage |-> errorMessage,
     status |-> status, errLog |-> errLog]

SetGlobals(g) ==
    /\ messages' = g.messages
    /\ nextId' = g.nextId
    /\ errorMessage' = g.errorMessage
    /\ status' = g.status
    /\ errLog' = g.errLog

\* ------------------------------------------------------------ handleError
\* handleError without the test of the role
handleErrorAnyRole(g, msg, code, by) ==
    IF Len(g.messages) > 0
    THEN [g EXCEPT !.messages = revoke(g.messages, Last(g.messages).id),
                   !.status = "silence",
                   !.errorMessage = FormatError(msg, code),
                   !.errLog = Append(@, [by |-> by, code |-> code,
                                         removed |-> Last(g.messages).id])]
    ELSE [g EXCEPT !.errLog = Append(@, [by |-> by, code |-> code, removed |-> 0])]

\* handleError without the revoke
handleErrorNoRevoke(g, msg, code, by) ==
    IF Len(g.messages) > 0 /\ Last(g.messages).role = "model"
    THEN [g EXCEPT !.status = "silence",
                   !.errorMessage = FormatError(msg, code),
                   !.errLog = Append(@, [by |-> by, code |-> code,
                                         removed |-> Last(g.messages).id])]
    ELSE [g EXCEPT !.errLog = Append(@, [by |-> by, code |-> code, removed |-> 0])]

\* const lastMessage = [...messagesRef.current].pop(); only when it is a
\* model message: revoke it, status silence, errorMessage `${code}: ${message}`.
\* by names the caller and is kept in the history variable only.
handleError(g, msg, code, by) ==
    IF Len(g.messages) > 0 /\ Last(g.messages).role = "model"
    THEN [g EXCEPT !.messages = revoke(g.messages, Last(g.messages).id),
                   !.status = "silence",
                   !.errorMessage = FormatError(msg, code),
                   !.errLog = Append(@, [by |-> by, code |-> code,
                                         removed |-> Last(g.messages).id])]
    ELSE [g EXCEPT !.errLog = Append(@, [by |-> by, code |-> code, removed |-> 0])]

\* ----------------------------------------------------------------- speech
\* speechQueue.current before the first handleResponse
NoQueue == 0

\* One speech task: the function speech(content) hands to enqueue.  turn is
\* the turn whose statement it speaks, q the queue it was put in, silence the
\* speechSilence its closure holds.  pc is "queued", "synth" (started, at
\* `await create(...)`), "done" (its code has run to the end) or "dropped"
\* (taken out by empty()); settled is the state of its promise.  flag (the
\* speechSilence state when the task started) and order (its place among the
\* calls of play, 0 before it calls play) are history.
Task(t, q, stmt, silence) ==
    [turn |-> t, q |-> q, stmt |-> stmt, silence |-> silence, pc |-> "queued",
     settled |-> "no", flag |-> FALSE, order |-> 0]

\* PromiseQueue: a task of queue q has started and its promise is pending
Working(ts, q) ==
    \E j \in 1..Len(ts) : ts[j].q = q /\ ts[j].pc \in {"synth", "done"} /\ ts[j].settled = "no"

Queued(ts, q) == {j \in 1..Len(ts) : ts[j].q = q /\ ts[j].pc = "queued"}

\* The task's code up to its first await: if (speechSilence) reject(false),
\* with no return, then edgeSpeechRef.current.create(...) is called.
StartTask(task, flag) ==
    [task EXCEPT !.pc = "synth", !.flag = flag,
                 !.settled = IF task.silence THEN "rejected" ELSE "no"]

RECURSIVE dequeue(_, _, _)
\* PromiseQueue dequeue: while no task of the queue is pending, the first
\* queued task is started; a task that settles at once makes room for the next.
dequeue(ts, q, flag) ==
    IF Working(ts, q) \/ Queued(ts, q) = {} THEN ts
    ELSE LET j == CHOOSE j \in Queued(ts, q) : \A i \in Queued(ts, q) : j <= i
         IN  dequeue([ts EXCEPT ![j] = StartTask(ts[j], flag)], q, flag)

\* PromiseQueue enqueue(task)
enqueue(ts, task, flag) == dequeue(Append(ts, task), task.q, flag)

\* PromiseQueue empty(): the tasks not yet started leave the queue
empty(ts, q) ==
    [j \in 1..Len(ts) |-> IF ts[j].q = q /\ ts[j].pc = "queued"
                          THEN [ts[j] EXCEPT !.pc = "dropped"] ELSE ts[j]]

\* speech(content) called by onStatement of turn t: nothing for the empty
\* content, speechQueue.current?.enqueue(...) otherwise.
speech(ts, t, stmt, flag) ==
    IF stmt = <<>> \/ speechQueue = NoQueue THEN ts
    ELSE enqueue(ts, Task(t, speechQueue, stmt, turns[t].silence), flag)

\* onStatement of handleResponse: speech(audioText) in voice mode only
onStatement(ts, t, stmt, flag) ==
    IF turns[t].voice THEN speech(ts, t, stmt, flag) ELSE ts

\* the number of calls of play made so far
Played(ts) == Cardinality({j \in 1..Len(ts) : ts[j].order > 0})

\* AudioStream play(...): the buffer becomes the active one when none is; when
\* one is active the controller queues the new buffer or supersedes the old.
play(a, j) == IF a = <<>> THEN {<<j>>} ELSE {<<j>>, Append(a, j)}

\* ------------------------------------------------------------ fetchAnswer
\* A request: the prompt messages put in front by the prompt helpers, then
\* the ids of the log messages it carries.
Request(prompts, ms) == [prompts |-> prompts, msgs |-> Ids(ms)]

\* The settings of the authentication: apiKey '' and apiProxy '' are the
\* settings not filled in.
NoKey == ""

NoProxy == ""

\* config.baseUrl left undefined
NoBaseUrl == "undefined"

\* the path of the default gateway
DefaultBaseUrl == "/api/google"

ApiKeys == {NoKey, "key"}

ApiProxies == {NoProxy, "https://proxy", DefaultBaseUrl}

Passwords == {"", "pw"}

\* encodeToken(password): the signed token of that password
encodeToken(pw) == IF pw = "" THEN "token()" ELSE "token(pw)"

\* config with baseUrl set to the proxy whatever the key
ConfigProxyAlways ==
    [apiKey |-> IF apiKey # NoKey THEN apiKey ELSE encodeToken(password),
     baseUrl |-> IF apiProxy # NoProxy THEN apiProxy ELSE NoBaseUrl]

\* config.apiKey and config.baseUrl of the request fetchAnswer builds, from
\* the settings as they are when it is called
Config ==
    IF apiKey # NoKey
    THEN [apiKey |-> apiKey,
          baseUrl |-> IF apiProxy # NoProxy THEN apiProxy ELSE NoBaseUrl]
    ELSE [apiKey |-> encodeToken(password), baseUrl |-> DefaultBaseUrl]

\* The speechSilence that the speech callback of a turn reads: the callbacks
\* of a turn are those of the render in which the user's handler was called,
\* and speech holds the speechSilence of that render (its useCallback
\* dependency); a follow-up turn runs with the callbacks of the turn that
\* carried the function calls.  A summary turn has no speech callback.
\* (A recorded submission runs with the callbacks of the render in which the
\* AudioRecorder was made; the runs in which speech tasks make progress take
\* typed submissions only.)
ClosureSilence(kind, disp) ==
    IF kind = "followup" THEN turns[disps[disp].turn].silence
    ELSE IF kind = "summary" THEN FALSE
    ELSE speechSilence

\* The record of one fetchAnswer call, as it stands when chat(config) has
\* been called and not yet answered (pc "requesting").
\* before (the ids of the log when the handler was called), targetRole (the
\* role of the message handleResubmit was called for) and auth (the settings
\* when fetchAnswer was called) are history.
\* said is the number of deltas the segmenter has given out in statements.
NewTurn(kind, target, request, onFunctionCall, onError, disp, call, ids) ==
    [kind |-> kind, target |-> target, pc |-> "requesting", request |-> request,
     config |-> Config, auth |-> <<apiKey, apiProxy, password>>,
     before |-> Ids(messages),
     targetRole |-> IF kind = "resubmit" /\ FindIndex(messages, target) # 0
                    THEN messages[FindIndex(messages, target)].role ELSE "none",
     onFunctionCall |-> onFunctionCall, onError |-> onError,
     disp |-> disp, call |-> call, ids |-> ids,
     arrived |-> <<>>, enq |-> <<>>, fwd |-> <<>>, text |-> <<>>,
     voice |-> FALSE, maxHist |-> 0, sumIds |-> {},
     silence |-> ClosureSilence(kind, disp), said |-> 0]

ConversationKinds == {"submit", "resubmit", "followup"}

TurnEnded(t) == t.pc \in {"completed", "errored", "summarized", "broken"}

\* ----------------------------------------------------- handleFunctionCall
CallOver == {"done", "failed"}

\* the loop with no await between its iterations
CanStartCallParallel(d, i) == d.st[i] = "pending"

\* The for...of loop with its awaits: call i is started when it is the first
\* call, or when the iteration of call i - 1 has run to its end.
CanStartCall(d, i) ==
    /\ d.st[i] = "pending"
    /\ i = 1 \/ d.st[i - 1] \in CallOver

DispEnded(d) ==
    \/ \E i \in 1..Len(d.st) : d.st[i] \in {"aborted", "crashed"}
    \/ d.st[Len(d.st)] \in CallOver

\* the iteration with the call-record appended after the lookups only
StartCallRecordLate(g, d, k, i) ==
    LET g1 == [g EXCEPT !.nextId = g.nextId + 2]
        d1 == [d EXCEPT !.rec[i] = g.nextId + 2, !.ph[i] = g.nextId + 1]
    IN  IF Resolve(d.calls[i]) = "crash" THEN [g |-> g1, d |-> [d1 EXCEPT !.st[i] = "crashed"]]
        ELSE IF Resolve(d.calls[i]) = "missing"
        THEN [g |-> handleError(g1, "FunctionCall execution failed!", 0, <<"disp", k, i>>),
              d |-> [d1 EXCEPT !.st[i] = "aborted"]]
        ELSE [g |-> [g1 EXCEPT !.messages =
                        addMessage(@, Msg(g.nextId + 2, "model", "functionCall",
                                          <<>>, d.calls[i]))],
              d |-> [d1 EXCEPT !.st[i] = "gateway",
                               !.payload[i] = GatewayPayload(d.args[i], Parameters)]]

\* One loop iteration up to `await fetch(...)`: the two nanoid() ids, the
\* call-record, the plugin and operation lookup, the payload.  Returns the
\* new globals and the new record of the dispatch.
StartCall(g, d, k, i) ==
    LET ph == g.nextId + 1
        rec == g.nextId + 2
        g1 == [g EXCEPT !.nextId = rec,
                        !.messages = addMessage(@, Msg(rec, "model", "functionCall",
                                                        <<>>, d.calls[i]))]
        d1 == [d EXCEPT !.rec[i] = rec, !.ph[i] = ph]
        res == Resolve(d.calls[i])
    IN  IF res = "crash" THEN [g |-> g1, d |-> [d1 EXCEPT !.st[i] = "crashed"]]
        ELSE IF res = "missing"
        THEN [g |-> handleError(g1, "FunctionCall execution failed!", 0, <<"disp", k, i>>),
              d |-> [d1 EXCEPT !.st[i] = "aborted"]]
        ELSE [g |-> g1, d |-> [d1 EXCEPT !.st[i] = "gateway",
                                         !.payload[i] = GatewayPayload(d.args[i], Parameters)]]

\* args is call.args of each call (the names of its entries), payload the
\* body of its gateway request.  errAt (the number of handleError calls made
\* before the dispatch) and gw (what the gateway gave for each call) are
\* history.
NewDisp(t, calls, args) ==
    [turn |-> t, calls |-> calls, args |-> args, errAt |-> Len(errLog),
     payload |-> [i \in 1..Len(calls) |-> NoPayload],
     st |-> [i \in 1..Len(calls) |-> "pending"],
     rec |-> [i \in 1..Len(calls) |-> 0],
     resp |-> [i \in 1..Len(calls) |-> 0],
     ph |-> [i \in 1..Len(calls) |-> 0],
     fu |-> [i \in 1..Len(calls) |-> 0],
     gw |-> [i \in 1..Len(calls) |-> "none"]]

\* ------------------------------------------------------------------ Init
UserMsg(id) == Msg(id, "user", "text", <<0>>, NoCall)

ModelMsg(id, text) == Msg(id, "model", "text", text, NoCall)

\* Logs a run can start from: empty, or left by earlier turns that completed
\* or (the last one) failed.
InitLogs ==
    {<<>>,
     <<UserMsg(1), ModelMsg(2, <<1>>), UserMsg(3)>>,
     <<UserMsg(1), ModelMsg(2, <<1>>), UserMsg(3), ModelMsg(4, <<1>>)>>}

Init ==
    /\ messages \in InitLogs
    /\ summary = [ids |-> {}, content |-> <<>>]
    /\ nextId = Len(messages)
    /\ errorMessage = NoError
    /\ status = "silence"
    /\ message = <<>>
    /\ talkMode \in {"chat", "voice"}
    /\ maxHistoryLength \in {0, MaxHist}
    /\ turns = <<>>
    /\ disps = <<>>
    /\ errLog = <<>>
    /\ speechSilence = FALSE
    /\ speechQueue = NoQueue
    /\ tasks = <<>>
    /\ audio = <<>>
    /\ apiKey = NoKey
    /\ apiProxy = NoProxy
    /\ password = ""

\* the number of turns issued by handleSubmit and handleResubmit so far
UserTurns == Cardinality({t \in 1..Len(turns) : turns[t].kind \in {"submit", "resubmit"}})

Busy ==
    \/ \E t \in 1..Len(turns) : turns[t].kind \in ConversationKinds /\ ~TurnEnded(turns[t])
    \/ \E k \in 1..Len(disps) : ~DispEnded(disps[k])

\* ---------------------------------------------------------- handleSubmit
\* input is "text" (typed text) or "audio" (a recorded data URL).  The empty
\* text is rejected before anything changes and is not an input here.
handleSubmit(input) ==
    /\ ~Busy
    /\ LET id == nextId + 1
           newUserMessage ==
               Msg(id, "user", IF input = "audio" THEN "inlineData" ELSE "text",
                   IF input = "audio" THEN <<>> ELSE <<0>>, NoCall)
           ms == addMessage(messages, newUserMessage)
           helper == (IF input = "audio" THEN <<"talkAudio">> ELSE <<>>)
                     \o (IF talkMode = "voice" THEN <<"voice">> ELSE <<>>)
           request ==
               IF summary.content # <<>>
               THEN Request(<<"summary">> \o helper,
                            SelectSeq(ms, LAMBDA m : m.id \notin summary.ids))
               ELSE Request(helper, ms)
       IN  /\ messages' = ms
           /\ nextId' = id
           /\ status' = IF talkMode = "voice" THEN "thinkng" ELSE status
           /\ errorMessage' = NoError
           /\ turns' = Append(turns, NewTurn("submit", -1, request, TRUE, TRUE, 0, 0, {}))
    /\ UNCHANGED <<summary, message, talkMode, maxHistoryLength, disps, errLog>>
    /\ UNCHANGED speechVars
    /\ UNCHANGED authVars

\* -------------------------------------------------------- handleResubmit
\* handleResubmit with the model branch cutting the log at the target
ResubmitLogTruncate(ms, id) ==
    IF id = 0 \/ FindIndex(ms, id) = 0 THEN ms
    ELSE IF ms[FindIndex(ms, id)].role = "model" THEN SubSeq(ms, 1, FindIndex(ms, id) - 1)
    ELSE IF FindIndex(ms, id) + 1 <= Len(ms) THEN revoke(ms, ms[FindIndex(ms, id) + 1].id)
    ELSE ms

\* handleResubmit with the user branch revoking the target itself
ResubmitLogUserItself(ms, id) ==
    IF id = 0 \/ FindIndex(ms, id) = 0 THEN ms ELSE revoke(ms, id)

\* The log handleResubmit(id) leaves before it issues the turn.
\* ErrorId stands for the id 'error', the sentinel of the error item.
ErrorId == 0

ResubmitLog(ms, id) ==
    IF id = ErrorId THEN ms
    ELSE LET messageIndex == FindIndex(ms, id) IN
         IF messageIndex = 0 THEN ms
         ELSE IF ms[messageIndex].role = "model" THEN revoke(ms, id)
         ELSE IF messageIndex + 1 <= Len(ms) THEN revoke(ms, ms[messageIndex + 1].id)
         ELSE ms

\* the request without the last message of the log
ResubmitRequestFront(ms) == Request(<<>>, Front(ms))

\* The messages of the request handleResubmit issues: [...messagesRef.current]
ResubmitRequest(ms) == Request(<<>>, ms)

\* The ids the regenerate buttons pass: a message of the log, or 'error' from
\* the error item, which is rendered while errorMessage is not empty.
ResubmitIds == Range(Ids(messages)) \cup (IF errorMessage # NoError THEN {ErrorId} ELSE {})

\* an id that no message of the log has (findIndex gives -1)
UnknownId == -2

handleResubmit(id) ==
    /\ ~Busy
    /\ LET ms == ResubmitLog(messages, id) IN
       /\ messages' = ms
       /\ errorMessage' = NoError
       /\ turns' = Append(turns, NewTurn("resubmit", id, ResubmitRequest(ms),
                                         TRUE, TRUE, 0, 0, {}))
    /\ UNCHANGED <<summary, nextId, status, message, talkMode, maxHistoryLength,
                   disps, errLog>>
    /\ UNCHANGED speechVars
    /\ UNCHANGED authVars

\* ---------------------------------------------------- handleCleanMessage
handleCleanMessage ==
    /\ ~Busy
    /\ messages # <<>> \/ errorMessage # NoError
    /\ messages' = clearMessage(messages)
    /\ errorMessage' = NoError
    /\ UNCHANGED <<summary, nextId, status, message, talkMode, maxHistoryLength,
                   turns, disps, errLog>>
    /\ UNCHANGED speechVars
    /\ UNCHANGED authVars

\* ------------------------------------------- fetchAnswer: chat(config) ends
\* The loop of handleFunctionCall goes on when the awaited fetchAnswer of a
\* follow-up turn returns, whether chat(config) answered or raised.
FollowUpReturned(ds, t) ==
    IF t.disp = 0 THEN ds ELSE [ds EXCEPT ![t.disp].st[t.call] = "done"]

\* chat(config) answers with a stream: the ReadableStream is built and
\* onResponse runs.  For a conversation turn that is handleResponse up to
\* `await textStream`: the snapshots of the settings and of the summary, the
\* new PromiseQueue and setSpeechSilence(false).
ChatOk(t) ==
    /\ turns[t].pc = "requesting"
    /\ turns' = [turns EXCEPT ![t] =
           IF turns[t].kind \in ConversationKinds
           THEN [@ EXCEPT !.pc = "streaming", !.voice = (talkMode = "voice"),
                          !.maxHist = maxHistoryLength, !.sumIds = summary.ids]
           ELSE [@ EXCEPT !.pc = "streaming"]]
    /\ disps' = FollowUpReturned(disps, turns[t])
    /\ IF turns[t].kind \in ConversationKinds
       THEN speechQueue' = t /\ speechSilence' = FALSE
       ELSE UNCHANGED <<speechQueue, speechSilence>>
    /\ UNCHANGED <<messages, summary, nextId, errorMessage, status, message,
                   talkMode, maxHistoryLength, errLog, tasks, audio>>
    /\ UNCHANGED authVars

\* the catch of fetchAnswer running the error path for every caller
OnChatErrorAlways(g, turn, t) == handleError(g, "stream", 0, <<"turn", t>>)

\* What the catch of fetchAnswer does with the Error chat(config) raised
OnChatError(g, turn, t) ==
    IF turn.onError THEN handleError(g, "stream", 0, <<"turn", t>>) ELSE g

ChatRaise(t) ==
    /\ turns[t].pc = "requesting"
    /\ SetGlobals(OnChatError(Globals, turns[t], t))
    /\ turns' = [turns EXCEPT ![t].pc = "errored"]
    /\ disps' = FollowUpReturned(disps, turns[t])
    /\ UNCHANGED <<summary, message, talkMode, maxHistoryLength>>
    /\ UNCHANGED speechVars
    /\ UNCHANGED authVars

\* -------------------------------------- fetchAnswer: the chunks of a stream
\* A chunk: its place in the stream and chunk.functionCalls(), <<>> standing
\* for undefined.  A text chunk's delta is named by its place in the stream.
Chunk(n, fc) == [n |-> n, fc |-> fc]

RECURSIVE Sum(_)
\* the sum of a sequence of numbers
Sum(s) == IF s = <<>> THEN 0 ELSE Head(s) + Sum(Tail(s))

\* the chunks that have arrived so far, over all streams
TotalChunks == Sum([t \in 1..Len(turns) |-> Len(turns[t].arrived)])

\* the function calls handed to handleFunctionCall so far
TotalCalls == Sum([k \in 1..Len(disps) |-> Len(disps[k].calls)])

Pumping(t) == turns[t].pc = "streaming"

\* else branch: controller.enqueue(encoder.encode(chunk.text())).  The
\* enqueue answers the pending read of the stream's consumer (textStream in
\* handleResponse, streamToText in summarize), which takes the delta in the
\* same task; onMessage: text += content; setMessage(text).
\* onMessage with text = content in place of text += content
onMessageReplace(text, content) == <<content>>

onMessage(text, content) == Append(text, content)

\* The statement the segmenter gives out with a delta: the text not yet given
\* out, when the delta ends a sentence (ends); nothing otherwise.
Statement(turn, text, ends) ==
    IF ends THEN SubSeq(text, turn.said + 1, Len(text)) ELSE <<>>

PumpText(t, ends) ==
    /\ Pumping(t)
    /\ LET n == Len(turns[t].arrived) + 1
           text == onMessage(turns[t].text, n)
           stmt == Statement(turns[t], text, ends)
       IN  /\ turns' = [turns EXCEPT ![t].arrived = Append(@, Chunk(n, <<>>)),
                                     ![t].enq = Append(@, n),
                                     ![t].text = text,
                                     ![t].said = IF turns[t].kind \in ConversationKinds /\ ends
                                                 THEN Len(text) ELSE @]
           /\ message' = IF turns[t].kind \in ConversationKinds THEN text ELSE message
           /\ tasks' = IF turns[t].kind \in ConversationKinds
                       THEN onStatement(tasks, t, stmt, speechSilence) ELSE tasks
    /\ UNCHANGED <<messages, summary, nextId, errorMessage, status,
                   talkMode, maxHistoryLength, disps, errLog,
                   speechSilence, speechQueue, audio>>
    /\ UNCHANGED authVars

\* if (calls) with onFunctionCall: handleFunctionCall(calls) runs up to its
\* first await, that is the first iteration of its loop.  args is the
\* call.args of each call.
PumpCalls(t, calls, args) ==
    /\ Pumping(t)
    /\ turns[t].onFunctionCall
    /\ LET n == Len(turns[t].arrived) + 1
           k == Len(disps) + 1
           r == StartCall(Globals, NewDisp(t, calls, args), k, 1)
       IN  /\ turns' = [turns EXCEPT ![t].arrived = Append(@, Chunk(n, calls)),
                                     ![t].fwd = Append(@, n)]
           /\ disps' = Append(disps, r.d)
           /\ SetGlobals(r.g)
    /\ UNCHANGED <<summary, message, talkMode, maxHistoryLength>>
    /\ UNCHANGED speechVars
    /\ UNCHANGED authVars

\* if (calls) without onFunctionCall: nothing is done with the chunk
PumpCallsNoCallback(t, calls) ==
    /\ Pumping(t)
    /\ ~turns[t].onFunctionCall
    /\ LET n == Len(turns[t].arrived) + 1 IN
       turns' = [turns EXCEPT ![t].arrived = Append(@, Chunk(n, calls))]
    /\ UNCHANGED <<messages, summary, nextId, errorMessage, status, message,
                   talkMode, maxHistoryLength, disps, errLog>>
    /\ UNCHANGED speechVars
    /\ UNCHANGED authVars

\* `for await (const chunk of stream)` raises: start() rejects, the
\* ReadableStream is errored and the pending read of its consumer rejects.
\* Nothing catches it (fetchAnswer has returned): no callback runs, neither
\* onFinish nor summarizeChat.
StreamRaise(t) ==
    /\ turns[t].pc = "streaming"
    /\ turns' = [turns EXCEPT ![t].pc = "broken"]
    /\ UNCHANGED <<messages, summary, nextId, errorMessage, status, message,
                   talkMode, maxHistoryLength, disps, errLog>>
    /\ UNCHANGED speechVars
    /\ UNCHANGED authVars

\* for (const part of item.parts) if (part.text) textMessages.push(item)
TextMessages(ms) == SelectSeq(ms, LAMBDA m : m.part = "text" /\ m.text # <<>>)

\* onFinish: messageList.length > maxHistoryLength, with the maxHistoryLength
\* and the summary read when handleResponse started
NeedsSummary(turn, ms) ==
    /\ turn.maxHist > 0
    /\ Len(SelectSeq(TextMessages(ms), LAMBDA m : m.id \notin turn.sumIds)) > turn.maxHist

\* summarizePrompt(messages, summary.ids, summary.content).ids
SummarizeIds(textMessages, ids) == {m.id : m \in Range(textMessages)} \ ids

\* The upstream stream ends: controller.close(), and textStream, at the end
\* of the stream, gives out the trailing fragment as a statement and calls
\* onFinish of handleResponse, which runs summarize up to `await chat(config)`.
Finish(t) ==
    /\ turns[t].kind \in ConversationKinds
    /\ turns[t].pc = "streaming"
    /\ LET id == nextId + 1
           ms == addMessage(messages, ModelMsg(id, turns[t].text))
           done == [turns EXCEPT ![t].pc = "completed", ![t].said = Len(turns[t].text)]
       IN  /\ messages' = ms
           /\ nextId' = id
           /\ status' = IF turns[t].voice THEN "silence" ELSE status
           /\ message' = <<>>
           /\ tasks' = onStatement(tasks, t, Statement(turns[t], turns[t].text, TRUE),
                                   speechSilence)
           /\ IF NeedsSummary(turns[t], ms)
              THEN /\ errorMessage' = NoError
                   /\ turns' = Append(done,
                          NewTurn("summary", -1, [prompts |-> <<"summarize">>, msgs |-> <<>>],
                                  FALSE, FALSE, 0, 0,
                                  SummarizeIds(TextMessages(ms), summary.ids)))
              ELSE /\ errorMessage' = errorMessage
                   /\ turns' = done
    /\ UNCHANGED <<summary, talkMode, maxHistoryLength, disps, errLog,
                   speechSilence, speechQueue, audio>>
    /\ UNCHANGED authVars

\* store action summarize(ids, content)
summarizeChat(sm, ids, content) == [ids |-> sm.ids \cup ids, content |-> content]

\* The upstream stream ends: controller.close(), and streamToText in the
\* onResponse of summarize returns the whole text.
SummaryFinish(t) ==
    /\ turns[t].kind = "summary"
    /\ turns[t].pc = "streaming"
    /\ summary' = summarizeChat(summary, turns[t].ids, turns[t].text)
    /\ turns' = [turns EXCEPT ![t].pc = "summarized"]
    /\ UNCHANGED <<messages, nextId, errorMessage, status, message, talkMode,
                   maxHistoryLength, disps, errLog>>
    /\ UNCHANGED speechVars
    /\ UNCHANGED authVars

\* ------------------------------------- handleFunctionCall: the gateway call
\* What `await fetch(...)` and `await apiResponse.json()` can give: a success
\* status with a JSON body ("ok"), another status with a JSON body
\* ("httpError"), or an exception ("raise": fetch rejects, or the body is not
\* JSON and json() rejects).
GatewayOutcomes == {"ok", "httpError", "raise"}

\* The try block has no test of apiResponse.ok: it throws exactly when fetch
\* or json() throws.
GatewayRaises(outcome) == outcome = "raise"

\* the catch passing no status code to handleError
GatewayFailedNoCode(k, i, outcome) ==
    /\ GatewayRaises(outcome)
    /\ SetGlobals(handleError(Globals, "gateway", 0, <<"disp", k, i>>))
    /\ disps' = [disps EXCEPT ![k].st[i] = "failed", ![k].gw[i] = outcome]
    /\ UNCHANGED turns

\* catch (err): handleError(err.message, 500)
GatewayFailed(k, i, outcome) ==
    /\ GatewayRaises(outcome)
    /\ SetGlobals(handleError(Globals, "gateway", 500, <<"disp", k, i>>))
    /\ disps' = [disps EXCEPT ![k].st[i] = "failed", ![k].gw[i] = outcome]
    /\ UNCHANGED turns

\* the follow-up request with the whole log
FollowUpRequestWhole(ms) == Request(<<>>, ms)

\* The messages of the follow-up request: messagesRef.current.slice(0, -1)
FollowUpRequest(ms) == Request(<<>>, Front(ms))

\* the placeholder added before the function response
AnswerMessagesSwapped(ms, functionResponseMessage, newModelMessage) ==
    addMessage(addMessage(ms, newModelMessage), functionResponseMessage)

\* addMessage(functionResponseMessage); addMessage(newModelMessage)
AnswerMessages(ms, functionResponseMessage, newModelMessage) ==
    addMessage(addMessage(ms, functionResponseMessage), newModelMessage)

\* The function response, the placeholder, and fetchAnswer up to `await chat`
GatewayAnswered(k, i, outcome) ==
    /\ ~GatewayRaises(outcome)
    /\ LET id == nextId + 1
           d == disps[k]
           ms2 == AnswerMessages(messages,
                      Msg(id, "function", "functionResponse", <<>>, d.calls[i]),
                      ModelMsg(d.ph[i], <<>>))
       IN  /\ messages' = ms2
           /\ nextId' = id
           /\ errorMessage' = NoError
           /\ turns' = Append(turns, NewTurn("followup", -1, FollowUpRequest(ms2),
                                             FALSE, TRUE, k, i, {}))
           /\ disps' = [disps EXCEPT ![k].st[i] = "followup", ![k].gw[i] = outcome,
                                     ![k].resp[i] = id, ![k].fu[i] = Len(turns) + 1]
    /\ UNCHANGED <<status, errLog>>

GatewayReturn(k, i, outcome) ==
    /\ disps[k].st[i] = "gateway"
    /\ GatewayFailed(k, i, outcome) \/ GatewayAnswered(k, i, outcome)
    /\ UNCHANGED <<summary, message, talkMode, maxHistoryLength>>
    /\ UNCHANGED speechVars
    /\ UNCHANGED authVars

\* The next iteration of the loop of handleFunctionCall
DispatchNext(k, i) ==
    /\ i > 1
    /\ CanStartCall(disps[k], i)
    /\ LET r == StartCall(Globals, disps[k], k, i) IN
       /\ SetGlobals(r.g)
       /\ disps' = [disps EXCEPT ![k] = r.d]
    /\ UNCHANGED <<summary, message, talkMode, maxHistoryLength, turns>>
    /\ UNCHANGED speechVars
    /\ UNCHANGED authVars

\* ------------------------------------------------------ the speech tasks
\* What `await edgeSpeechRef.current?.create(...)` and `await
\* voice.arrayBuffer()` give a task: an audio buffer ("voice") or nothing
\* ("none": the ref or the result is undefined).
SynthOutcomes == {"voice", "none"}

\* if (voice): setStatus('talking'), audioStreamRef.current?.play(...) and
\* resolve(true), which settles the promise unless reject(false) has; the
\* PromiseQueue then starts the next task.  Without a voice the code ends
\* and has neither resolved nor rejected.
SynthDone(j, outcome) ==
    /\ tasks[j].pc = "synth"
    /\ IF outcome = "voice"
       THEN /\ status' = "talking"
            /\ audio' \in play(audio, j)
            /\ tasks' = dequeue([tasks EXCEPT ![j].pc = "done",
                                              ![j].order = Played(tasks) + 1,
                                              ![j].settled = IF @ = "no" THEN "resolved" ELSE @],
                                tasks[j].q, speechSilence)
       ELSE /\ tasks' = [tasks EXCEPT ![j].pc = "done"]
            /\ UNCHANGED <<status, audio>>
    /\ UNCHANGED <<messages, summary, nextId, errorMessage, message, talkMode,
                   maxHistoryLength, turns, disps, errLog, speechSilence, speechQueue>>
    /\ UNCHANGED authVars

\* The active buffer has been played to its end: onFinished of its play call
\* (setStatus('silence')), and the controller goes on with the next buffer.
AudioFinished ==
    /\ audio # <<>>
    /\ status' = "silence"
    /\ audio' = Tail(audio)
    /\ UNCHANGED <<messages, summary, nextId, errorMessage, message, talkMode,
                   maxHistoryLength, turns, disps, errLog, speechSilence, speechQueue, tasks>>
    /\ UNCHANGED authVars

\* The stop button, rendered in voice mode while status is 'talking'
handleStopTalking ==
    /\ talkMode = "voice"
    /\ status = "talking"
    /\ speechSilence' = TRUE
    /\ tasks' = IF speechQueue = NoQueue THEN tasks ELSE empty(tasks, speechQueue)
    /\ audio' = <<>>
    /\ status' = "silence"
    /\ UNCHANGED <<messages, summary, nextId, errorMessage, message, talkMode,
                   maxHistoryLength, turns, disps, errLog, speechQueue>>
    /\ UNCHANGED authVars

\* ------------------------------------------------------------ settings
\* The settings dialog: update({apiKey, apiProxy, password}) of the setting
\* store, at any moment.
updateSettings(key, proxy, pw) ==
    /\ <<key, proxy, pw>> # <<apiKey, apiProxy, password>>
    /\ apiKey' = key
    /\ apiProxy' = proxy
    /\ password' = pw
    /\ UNCHANGED <<messages, summary, nextId, errorMessage, status, message, talkMode,
                   maxHistoryLength, turns, disps, errLog>>
    /\ UNCHANGED speechVars

\* ------------------------------------------------------------------ Next
\* The bounds of a run: the user may issue a turn,
CanAsk(ops, ts) == UserTurns < ops /\ Len(turns) < ts

\* a stream may carry one more chunk, of n function calls,
CanPump(chunks) == TotalChunks < chunks

CanCall(calls, n) == TotalCalls + n <= calls

\* and the requests made, on the state a step leaves.
TurnsWithin(ts) == Len(turns) <= ts

\* calls that carry no argument
NoArgs(calls) == [i \in 1..Len(calls) |-> {}]

Next ==
    \/ \E input \in {"text", "audio"} : CanAsk(MaxOps, MaxTurns) /\ handleSubmit(input)
    \/ \E id \in ResubmitIds : CanAsk(MaxOps, MaxTurns) /\ handleResubmit(id)
    \/ UserTurns < MaxOps /\ handleCleanMessage
    \/ \E t \in 1..Len(turns) : ChatOk(t)
    \/ \E t \in 1..Len(turns) : ChatRaise(t)
    \/ \E t \in 1..Len(turns), ends \in BOOLEAN : CanPump(MaxChunks) /\ PumpText(t, ends)
    \/ \E t \in 1..Len(turns), calls \in Batches :
           CanPump(MaxChunks) /\ CanCall(MaxCalls, Len(calls))
               /\ PumpCalls(t, calls, NoArgs(calls))
    \/ \E t \in 1..Len(turns), calls \in UnreadBatches :
           CanPump(MaxChunks) /\ PumpCallsNoCallback(t, calls)
    \/ \E t \in 1..Len(turns) : Finish(t) /\ TurnsWithin(MaxTurns)'
    \/ \E t \in 1..Len(turns) : SummaryFinish(t)
    \/ \E k \in 1..Len(disps), i \in 1..MaxCalls, outcome \in GatewayOutcomes :
           i <= Len(disps[k].st) /\ GatewayReturn(k, i, outcome) /\ TurnsWithin(MaxTurns)'
    \/ \E k \in 1..Len(disps), i \in 1..MaxCalls :
           i <= Len(disps[k].st) /\ DispatchNext(k, i)

Spec == Init /\ [][Next]_vars

\* ------------------------------------------------------------ SpeechSpec
\* The runs in which the speech tasks make progress: typed submissions to an
\* empty log with summarization off, streams of text and of single function
\* calls that the gateway answers, the synthesis, the audio controller and
\* the stop button.
SpeechOps == 2       \* turns the user issues in one run
SpeechTurns == 3     \* requests issued in one run
SpeechCalls == 1     \* function calls in one run
SpeechChunks == 3    \* chunks in one run, over all streams

SpeechInit == Init /\ messages = <<>> /\ maxHistoryLength = 0

SpeechNext ==
    \/ CanAsk(SpeechOps, SpeechTurns) /\ handleSubmit("text")
    \/ \E t \in 1..Len(turns) : ChatOk(t)
    \/ \E t \in 1..Len(turns), ends \in BOOLEAN : CanPump(SpeechChunks) /\ PumpText(t, ends)
    \/ \E t \in 1..Len(turns) :
           CanPump(SpeechChunks) /\ CanCall(SpeechCalls, 1)
               /\ PumpCalls(t, <<<<"p1", "op1">>>>, <<{}>>)
    \/ \E k \in 1..Len(disps) : GatewayReturn(k, 1, "ok") /\ TurnsWithin(SpeechTurns)'
    \/ \E t \in 1..Len(turns) : Finish(t)
    \/ \E j \in 1..Len(tasks), outcome \in SynthOutcomes : SynthDone(j, outcome)
    \/ AudioFinished
    \/ handleStopTalking

SpeechSpec == SpeechInit /\ [][SpeechNext]_vars

\* The same runs with the outside answering: every synthesis call returns,
\* with a voice or with nothing, and the audio controller plays the active
\* buffer to its end.
SpeechLive ==
    /\ WF_vars(\E j \in 1..Len(tasks), outcome \in SynthOutcomes : SynthDone(j, outcome))
    /\ WF_vars(AudioFinished)

SpeechLiveSpec == SpeechSpec /\ SpeechLive

\* ----------------------------------------------------------- HistorySpec
\* The runs that are long enough for two summarization requests: chat mode,
\* submissions and regenerations, streams of text and of single function
\* calls that the gateway answers.
HistOps == 2       \* turns the user issues in one run
HistTurns == 4     \* requests issued in one run
HistCalls == 1     \* function calls in one run
HistChunks == 2    \* chunks in one run, over all streams

HistoryInit == Init /\ talkMode = "chat"

HistoryNext ==
    \/ \E input \in {"text", "audio"} : CanAsk(HistOps, HistTurns) /\ handleSubmit(input)
    \/ \E id \in ResubmitIds : CanAsk(HistOps, HistTurns) /\ handleResubmit(id)
    \/ \E t \in 1..Len(turns) : ChatOk(t)
    \/ \E t \in 1..Len(turns) : ChatRaise(t)
    \/ \E t \in 1..Len(turns) : CanPump(HistChunks) /\ PumpText(t, TRUE)
    \/ \E t \in 1..Len(turns) :
           CanPump(HistChunks) /\ CanCall(HistCalls, 1)
               /\ PumpCalls(t, <<<<"p1", "op1">>>>, <<{}>>)
    \/ \E k \in 1..Len(disps) : GatewayReturn(k, 1, "ok") /\ TurnsWithin(HistTurns)'
    \/ \E t \in 1..Len(turns) : Finish(t) /\ TurnsWithin(HistTurns)'
    \/ \E t \in 1..Len(turns) : SummaryFinish(t)
    \/ \E t \in 1..Len(turns) : StreamRaise(t)

HistorySpec == HistoryInit /\ [][HistoryNext]_vars

\* ----------------------------------------------------------- PayloadSpec
\* The runs of one typed submission whose stream carries one function call
\* of the installed operation, with any set of arguments.
PayloadOps == 1      \* turns the user issues in one run
PayloadTurns == 2    \* requests issued in one run
PayloadCalls == 1    \* function calls in one run
PayloadChunks == 1   \* chunks in one run, over all streams

PayloadInit == Init /\ messages = <<>> /\ talkMode = "chat" /\ maxHistoryLength = 0

PayloadNext ==
    \/ CanAsk(PayloadOps, PayloadTurns) /\ handleSubmit("text")
    \/ \E t \in 1..Len(turns) : ChatOk(t)
    \/ \E t \in 1..Len(turns), args \in SUBSET ArgNames :
           CanPump(PayloadChunks) /\ CanCall(PayloadCalls, 1)
               /\ PumpCalls(t, <<<<"p1", "op1">>>>, <<args>>)
    \/ \E k \in 1..Len(disps), outcome \in GatewayOutcomes :
           GatewayReturn(k, 1, outcome) /\ TurnsWithin(PayloadTurns)'
    \/ \E t \in 1..Len(turns) : Finish(t)

PayloadSpec == PayloadInit /\ [][PayloadNext]_vars

\* -------------------------------------------------------------- AuthSpec
\* The runs of one submission in chat mode with the settings of the
\* authentication changed at any moment: the requests of the turn, of the
\* follow-up turn of a function call and of the summarization.
AuthOps == 1       \* turns the user issues in one run
AuthTurns == 3     \* requests issued in one run
AuthCalls == 1     \* function calls in one run
AuthChunks == 2    \* chunks in one run, over all streams

AuthInit == Init /\ messages = <<>> /\ talkMode = "chat"

AuthNext ==
    \/ CanAsk(AuthOps, AuthTurns) /\ handleSubmit("text")
    \/ \E key \in ApiKeys, proxy \in ApiProxies, pw \in Passwords :
           updateSettings(key, proxy, pw)
    \/ \E t \in 1..Len(turns) : ChatOk(t)
    \/ \E t \in 1..Len(turns) : CanPump(AuthChunks) /\ PumpText(t, TRUE)
    \/ \E t \in 1..Len(turns) :
           CanPump(AuthChunks) /\ CanCall(AuthCalls, 1)
               /\ PumpCalls(t, <<<<"p1", "op1">>>>, <<{}>>)
    \/ \E k \in 1..Len(disps) : GatewayReturn(k, 1, "ok") /\ TurnsWithin(AuthTurns)'
    \/ \E t \in 1..Len(turns) : Finish(t) /\ TurnsWithin(AuthTurns)'

AuthSpec == AuthInit /\ [][AuthNext]_vars

\* ------------------------------------------------------------- RegenSpec
\* The runs of two turns of the user with summarization off, for the
\* regeneration after an error: submissions and regenerations from a
\* message, from the error item and with an id that is not in the log; a
\* stream call that raises, function calls, a gateway that fails.
RegenOps == 2      \* turns the user issues in one run
RegenTurns == 3    \* requests issued in one run
RegenCalls == 1    \* function calls in one run
RegenChunks == 2   \* chunks in one run, over all streams

RegenInit == Init /\ maxHistoryLength = 0

RegenNext ==
    \/ CanAsk(RegenOps, RegenTurns) /\ handleSubmit("text")
    \/ \E id \in ResubmitIds \cup {UnknownId} :
           CanAsk(RegenOps, RegenTurns) /\ handleResubmit(id)
    \/ \E t \in 1..Len(turns) : ChatOk(t)
    \/ \E t \in 1..Len(turns) : ChatRaise(t)
    \/ \E t \in 1..Len(turns) : CanPump(RegenChunks) /\ PumpText(t, TRUE)
    \/ \E t \in 1..Len(turns), call \in CallNames :
           CanPump(RegenChunks) /\ CanCall(RegenCalls, 1) /\ PumpCalls(t, <<call>>, <<{}>>)
    \/ \E k \in 1..Len(disps), outcome \in GatewayOutcomes :
           GatewayReturn(k, 1, outcome) /\ TurnsWithin(RegenTurns)'
    \/ \E t \in 1..Len(turns) : Finish(t)

RegenSpec == RegenInit /\ [][RegenNext]_vars

\* ---------------------------------------------------------- VoiceLiveSpec
\* The runs of one typed submission in voice mode with summarization off, in
\* which the outside answers: chat(config) answers or raises, a stream ends
\* or breaks, the gateway returns, the synthesis returns and the audio
\* controller plays the active buffer to its end.
VoiceOps == 1      \* turns the user issues in one run
VoiceTurns == 2    \* requests issued in one run
VoiceCalls == 1    \* function calls in one run
VoiceChunks == 2   \* chunks in one run, over all streams

VoiceInit == Init /\ talkMode = "voice" /\ maxHistoryLength = 0

ChatAnswers == \E t \in 1..Len(turns) : ChatOk(t) \/ ChatRaise(t)

StreamEnds == \E t \in 1..Len(turns) : Finish(t) \/ StreamRaise(t)

GatewayAnswers ==
    \E k \in 1..Len(disps), outcome \in GatewayOutcomes :
        GatewayReturn(k, 1, outcome) /\ TurnsWithin(VoiceTurns)'

VoiceNext ==
    \/ CanAsk(VoiceOps, VoiceTurns) /\ handleSubmit("text")
    \/ ChatAnswers
    \/ StreamEnds
    \/ GatewayAnswers
    \/ \E t \in 1..Len(turns), ends \in BOOLEAN : CanPump(VoiceChunks) /\ PumpText(t, ends)
    \/ \E t \in 1..Len(turns), call \in CallNames :
           CanPump(VoiceChunks) /\ CanCall(VoiceCalls, 1) /\ PumpCalls(t, <<call>>, <<{}>>)
    \/ \E j \in 1..Len(tasks), outcome \in SynthOutcomes : SynthDone(j, outcome)
    \/ AudioFinished
    \/ handleStopTalking

VoiceLiveSpec ==
    /\ VoiceInit /\ [][VoiceNext]_vars
    /\ WF_vars(ChatAnswers) /\ WF_vars(StreamEnds) /\ WF_vars(GatewayAnswers)
    /\ SpeechLive

\* ======================================================================
\* A message of the log by its id
IdIn(id, ms) == \E j \in 1..Len(ms) : ms[j].id = id

\* a turn issued by handleResubmit in this step
Resubmitted == Len(turns') = Len(turns) + 1 /\ Last(turns').kind = "resubmit"

\* turn t completes in this step (onFinish runs)
Completes(t) == turns[t].pc = "streaming" /\ turns'[t].pc = "completed"

\* C1: handleResubmit(M) for a model message M removes exactly M, keeps the
\* other messages in their order and sends the resulting log as the request;
\* when the stream of that turn completes, exactly one model message is
\* appended at the end of the log.
C1_ResubmitModel ==
    [][/\ (Resubmitted /\ Last(turns').targetRole = "model") =>
            /\ messages' = RemoveAt(messages, FindIndex(messages, Last(turns').target))
            /\ Last(turns').request.msgs = Ids(messages')
       /\ \A t \in 1..Len(turns) :
            (turns[t].targetRole = "model" /\ Completes(t)) =>
                /\ Len(messages') = Len(messages) + 1
                /\ Front(messages') = messages
                /\ Last(messages').role = "model"
                /\ Last(messages').id \notin Range(Ids(messages))]_vars

\* C1 witness: a regeneration of a model message that was not the last message
\* of the log has completed.
C1_Witness ==
    \E t \in 1..Len(turns) :
        /\ turns[t].targetRole = "model"
        /\ turns[t].pc = "completed"
        /\ turns[t].target # Last(turns[t].before)

\* C2: handleResubmit(U) for a user message U removes the message right after
\* U if there is one, nothing otherwise; U and all other messages stay, in
\* order, and the request of the fresh turn is the resulting log.
C2_ResubmitUser ==
    [][(Resubmitted /\ Last(turns').targetRole = "user") =>
            LET i == FindIndex(messages, Last(turns').target) IN
            /\ messages' = IF i < Len(messages) THEN RemoveAt(messages, i + 1) ELSE messages
            /\ IdIn(Last(turns').target, messages')
            /\ Last(turns').request.msgs = Ids(messages')
            /\ Last(turns').pc = "requesting"]_vars

\* C2 witness: one regeneration from a user message with a message after it
C2_Witness ==
    \E t \in 1..Len(turns) :
        /\ turns[t].targetRole = "user"
        /\ Len(turns[t].request.msgs) < Len(turns[t].before)

\* ---------------------------------------------------------- dispatches
\* the number of messages of ms with that id
Count(id, ms) == Cardinality({j \in 1..Len(ms) : ms[j].id = id})

Calls(d) == 1..Len(d.calls)

\* every call of the batch names an installed operation and got a success
\* answer from the gateway
AllSucceeded(d) == \A i \in Calls(d) : Resolve(d.calls[i]) = "ok" /\ d.gw[i] = "ok"

\* The call-record, the response and the placeholder of every call are in ms
\* once each, in this order, those of call i before those of call i + 1.
InCallOrder(d, ms) ==
    \A i \in Calls(d) :
        /\ Count(d.rec[i], ms) = 1 /\ Count(d.resp[i], ms) = 1 /\ Count(d.ph[i], ms) = 1
        /\ ms[FindIndex(ms, d.rec[i])].part = "functionCall"
        /\ ms[FindIndex(ms, d.resp[i])].role = "function"
        /\ ms[FindIndex(ms, d.ph[i])].role = "model"
        /\ ms[FindIndex(ms, d.ph[i])].text = <<>>
        /\ FindIndex(ms, d.rec[i]) < FindIndex(ms, d.resp[i])
        /\ FindIndex(ms, d.resp[i]) < FindIndex(ms, d.ph[i])
        /\ i < Len(d.calls) => FindIndex(ms, d.ph[i]) < FindIndex(ms, d.rec[i + 1])

\* handleFunctionCall number k returns (or throws) in this step
DispEndsNow(k) ==
    /\ DispEnded(disps'[k])
    /\ k <= Len(disps) => ~DispEnded(disps[k])

CallEnded == {"done", "failed", "aborted", "crashed"}

\* the iteration of call i of dispatch k ends in this step
CallEndsNow(k, i) ==
    /\ disps'[k].st[i] \in CallEnded
    /\ k <= Len(disps) => disps[k].st[i] \notin CallEnded

\* the follow-up turns issued for call i of dispatch k
FollowUps(k, i) ==
    {t \in 1..Len(turns) : turns[t].kind = "followup" /\ turns[t].disp = k /\ turns[t].call = i}

\* the error path has been run by call i of dispatch k with that code
ErrorPathRan(k, i, code) ==
    \E j \in 1..Len(errLog) : errLog[j].by = <<"disp", k, i>> /\ errLog[j].code = code

C4_Sequential ==
    \A k \in 1..Len(disps) :
        /\ \A i \in 1..(Len(disps[k].calls) - 1) :
              disps[k].st[i + 1] # "pending" =>
                  \/ disps[k].st[i] = "failed"
                  \/ /\ disps[k].st[i] \in {"followup", "done"}
                     /\ disps[k].resp[i] # 0
                     /\ FollowUps(k, i) # {}
        /\ Cardinality({i \in Calls(disps[k]) : disps[k].st[i] = "gateway"}) <= 1

\* C4 witness: the second call of a batch is at the gateway
C4_Witness ==
    \E k \in 1..Len(disps) : Len(disps[k].calls) = 2 /\ disps[k].st[2] = "gateway"

C6_GatewayRaise ==
    \A k \in 1..Len(disps), i \in 1..MaxCalls :
        i <= Len(disps[k].calls) =>
            /\ disps[k].gw[i] = "raise" =>
                  /\ disps[k].st[i] = "failed"
                  /\ disps[k].resp[i] = 0
                  /\ ~IdIn(disps[k].ph[i], messages)
                  /\ FollowUps(k, i) = {}
                  /\ ErrorPathRan(k, i, 500)
            /\ disps[k].gw[i] \in {"ok", "httpError"} =>
                  Cardinality(FollowUps(k, i)) = 1
            /\ disps[k].gw[i] = "none" => FollowUps(k, i) = {}
        /\ Cardinality({j \in 1..Len(messages) : messages[j].role = "function"})
               <= Cardinality({t \in 1..Len(turns) : turns[t].kind = "followup"})

\* C6 witness: a gateway call has raised
C6_Witness ==
    \E k \in 1..Len(disps), i \in 1..MaxCalls :
        i <= Len(disps[k].calls) /\ disps[k].gw[i] = "raise"

\* C7: a gateway answer with a non-success status is reported through the
\* error path, is not appended as a function response and has no follow-up
\* turn.
C7_NonSuccessIsError ==
    \A k \in 1..Len(disps), i \in 1..MaxCalls :
        (i <= Len(disps[k].calls) /\ disps[k].gw[i] = "httpError") =>
            /\ ErrorPathRan(k, i, 500)
            /\ disps[k].resp[i] = 0
            /\ FollowUps(k, i) = {}

\* ---------------------------------------------------------------- turns
\* the places in the stream of the chunks that carry function calls
CallChunks(t) == SelectSeq([n \in 1..Len(t.arrived) |-> n], LAMBDA n : t.arrived[n].fc # <<>>)

TextChunks(t) == SelectSeq([n \in 1..Len(t.arrived) |-> n], LAMBDA n : t.arrived[n].fc = <<>>)

\* C8: in every turn the chunks with function calls, and only they, are
\* forwarded to the function-call callback, and the other chunks, and only
\* they, are enqueued to the text channel, once each and in arrival order.
C8_ChunkRouting ==
    \A t \in 1..Len(turns) :
        /\ turns[t].fwd = CallChunks(turns[t])
        /\ turns[t].enq = TextChunks(turns[t])

\* C9: a turn of handleSubmit or handleResubmit ends completed, function-
\* pending or errored, one of the three: a turn whose stream carried a batch
\* of function calls appends no model text message for that stream.
C9_OneOutcome ==
    \A t \in 1..Len(turns) :
        turns[t].kind \in {"submit", "resubmit"} =>
            /\ turns[t].pc = "completed" => turns[t].fwd = <<>>
            /\ turns[t].pc = "errored" => turns[t].fwd = <<>> /\ turns[t].arrived = <<>>

\* C10: when chat(config) of a conversation turn raises, the error path runs
\* and errorMessage becomes '400: <message>'; no request is issued by the
\* same step.
C10_StreamErrorSurfaced ==
    [][\A t \in 1..Len(turns) :
          (turns[t].kind \in ConversationKinds
             /\ turns[t].pc = "requesting" /\ turns'[t].pc = "errored") =>
              /\ Len(errLog') = Len(errLog) + 1
              /\ errorMessage' = FormatError("stream", 0)
              /\ Len(turns') = Len(turns)]_vars

\* --------------------------------------------------------------- speech
\* task j calls play in this step
Plays(j) == tasks[j].order = 0 /\ tasks'[j].order > 0

Started(task) == task.pc \in {"synth", "done"}

\* C11: a speech task that runs while the silence flag is set rejects and
\* does not play: it makes no call of play (and so never sets status to
\* 'talking'); a task that has rejected makes no call of play.
C11_SilencedTaskRejects ==
    \A j \in 1..Len(tasks) :
        /\ (Started(tasks[j]) /\ tasks[j].flag) =>
               tasks[j].settled = "rejected" /\ tasks[j].order = 0
        /\ tasks[j].settled = "rejected" => tasks[j].order = 0

\* C12: once handleStopTalking has run and no turn has been issued since, no
\* task of the queue it emptied calls play, and a task it took out of the
\* queue never starts.
C12_NoPlayAfterStop ==
    [][\A j \in 1..Len(tasks) :
          /\ (Plays(j) /\ tasks[j].q = speechQueue /\ speechQueue = Len(turns))
                 => ~speechSilence
          /\ tasks[j].pc = "dropped" => tasks'[j].pc = "dropped"]_vars

\* C13: play is called only while the audio controller holds no buffer.
C13_NoOverlap ==
    [][\A j \in 1..Len(tasks) : Plays(j) => audio = <<>>]_vars

\* C14: the statements of a turn call play in the order in which the
\* segmenter gave them out, and a turn in chat mode has no speech task.
C14_PlayInOrder ==
    /\ \A j, k \in 1..Len(tasks) :
          (j < k /\ tasks[j].turn = tasks[k].turn /\ tasks[j].order > 0 /\ tasks[k].order > 0)
              => tasks[j].order < tasks[k].order
    /\ \A j \in 1..Len(tasks) : turns[tasks[j].turn].voice

\* C15: a task calls play only while the queue it was put in is the current
\* one: after handleResponse has started for a new turn, no task enqueued
\* before calls play.
C15_NoLeak ==
    [][\A j \in 1..Len(tasks) : Plays(j) => tasks[j].q = speechQueue]_vars

\* -------------------------------------------------------------- summary
\* a summarization request is issued in this step
Summarizes == Len(turns') = Len(turns) + 1 /\ Last(turns').kind = "summary"

\* the text-bearing messages of ms whose ids are outside ids
Unsummarized(ms, ids) == SelectSeq(TextMessages(ms), LAMBDA m : m.id \notin ids)

\* the summarization requests that have not ended
PendingSummaries == {s \in 1..Len(turns) : turns[s].kind = "summary" /\ ~TurnEnded(turns[s])}

\* a completing turn issues a summarization request exactly when the text-
\* bearing messages outside the current summary exceed maxHistoryLength
IffOverThreshold ==
    \A t \in 1..Len(turns) :
        Completes(t) =>
            (Summarizes <=> /\ maxHistoryLength > 0
                            /\ Len(Unsummarized(messages', summary.ids)) > maxHistoryLength)

\* no request is issued for messages that a pending request is folding in
NoSecondRequest ==
    Summarizes => \A s \in PendingSummaries : turns[s].ids \cap Last(turns').ids = {}

OffWhenZero == maxHistoryLength = 0 => \A t \in 1..Len(turns) : turns[t].kind # "summary"

\* C16: with maxHistoryLength > 0 a turn completion issues a summarization
\* request if and only if the text-bearing messages outside the current
\* summary exceed maxHistoryLength, and never for messages that a request
\* still in flight is folding in; with maxHistoryLength = 0 none is issued.
C16_SummarizeOnce == [][IffOverThreshold /\ NoSecondRequest /\ OffWhenZero]_vars

\* a conversation turn is issued in this step
IssuesTurn == Len(turns') = Len(turns) + 1 /\ Last(turns').kind \in ConversationKinds

\* C17: while the summary content is not empty, the request of every
\* conversation turn (handleSubmit, handleResubmit, follow-up) carries no
\* message whose id is in summary.ids and begins with the summary prompt.
C17_RequestUsesSummary ==
    [][(IssuesTurn /\ summary.content # <<>>) =>
          /\ Range(Last(turns').request.msgs) \cap summary.ids = {}
          /\ Last(turns').request.prompts # <<>>
          /\ Head(Last(turns').request.prompts) = "summary"]_vars

\* a step of the summarization request s: chat answers or raises, a chunk
\* arrives, the stream ends or breaks
SummaryStep(s) == turns[s].kind = "summary" /\ turns'[s] # turns[s]

\* C18: no step of a summarization request changes the conversation log; the
\* summary changes only when the stream of a summarization request ends,
\* with the ids of the request folded in, and is left as it is when the
\* request fails.
C18_SummarizeFrame ==
    [][/\ \A s \in 1..Len(turns) :
            SummaryStep(s) =>
                /\ messages' = messages
                /\ turns'[s].pc \in {"errored", "broken"} => summary' = summary
                /\ turns'[s].pc = "summarized" =>
                       summary'.ids = summary.ids \cup turns[s].ids
       /\ summary' # summary =>
            \E s \in 1..Len(turns) :
                turns[s].kind = "summary" /\ turns[s].pc = "streaming"
                    /\ turns'[s].pc = "summarized"]_vars

\* C18 witness: one summarization request has failed and a later one has
\* replaced the summary, with messages in the log
C18_Witness ==
    \E s1, s2 \in 1..Len(turns) :
        /\ turns[s1].kind = "summary" /\ turns[s1].pc \in {"errored", "broken"}
        /\ turns[s2].kind = "summary" /\ turns[s2].pc = "summarized"
        /\ s1 < s2
        /\ summary.content # <<>>
        /\ summary.ids # {}
        /\ Last(messages).role = "model"

\* ----------------------------------------------------------- completion
\* a text delta of conversation turn t arrives in this step
TextArrives(t) ==
    /\ turns[t].kind \in ConversationKinds
    /\ Len(turns'[t].arrived) = Len(turns[t].arrived) + 1
    /\ Last(turns'[t].arrived).fc = <<>>

C20_LookupFailureSurfaced ==
    [][\A k \in 1..Len(disps'), i \in 1..MaxCalls :
          (i <= Len(disps'[k].calls) /\ CallEndsNow(k, i)
             /\ Resolve(disps'[k].calls[i]) # "ok") =>
              /\ \E j \in 1..Len(errLog') : errLog'[j].by = <<"disp", k, i>>
              /\ errorMessage' # NoError
              /\ disps'[k].gw[i] = "none"]_vars

\* ------------------------------------------------------ missing operation
\* the iteration of call i of dispatch k ends at the operation lookup
AbortsNow(k, i) ==
    /\ i <= Len(disps'[k].calls)
    /\ CallEndsNow(k, i)
    /\ disps'[k].st[i] = "aborted"

\* C21 as stated: when the operation is missing the call-record appended for
\* the call stays in the log, with no response message after it.
C21_Original ==
    [][\A k \in 1..Len(disps'), i \in 1..MaxCalls :
          AbortsNow(k, i) =>
              /\ Count(disps'[k].rec[i], messages') = 1
              /\ disps'[k].resp[i] = 0]_vars

\* C21 amended: when the manifest is found and the operation is missing, the
\* dispatcher runs the error path and returns: the call-record just appended
\* is the last message of the log and model-role, so the error path revokes
\* it and the log is as it was before the call; errorMessage is
\* '400: FunctionCall execution failed!', status is 'silence', and the call
\* has no gateway call, no response, no placeholder and no follow-up turn.
C21_MissingOperationRevoked ==
    [][\A k \in 1..Len(disps'), i \in 1..MaxCalls :
          AbortsNow(k, i) =>
              /\ Count(disps'[k].rec[i], messages') = 0
              /\ messages' = messages
              /\ Last(errLog') = [by |-> <<"disp", k, i>>, code |-> 0,
                                  removed |-> disps'[k].rec[i]]
              /\ Len(errLog') = Len(errLog) + 1
              /\ errorMessage' = FormatError("FunctionCall execution failed!", 0)
              /\ status' = "silence"
              /\ disps'[k].gw[i] = "none"
              /\ disps'[k].resp[i] = 0
              /\ ~IdIn(disps'[k].ph[i], messages')
              /\ Len(turns') = Len(turns)]_vars

\* C21 witness: the second call of a batch named an operation its plugin
\* does not have, after the first call was answered
C21_Witness ==
    \E k \in 1..Len(disps) :
        /\ Len(disps[k].calls) = 2
        /\ disps[k].st[1] = "done"
        /\ disps[k].st[2] = "aborted"
        /\ Count(disps[k].rec[2], messages) = 0
        /\ IdIn(disps[k].rec[1], messages)
        /\ errorMessage # NoError

\* -------------------------------------------------------------- payload
\* the map of the gateway payload for a declared location
MapOf(in) == IF in = "header" THEN "headers" ELSE in

\* the argument is in that map of the payload
InMap(payload, key, name) == key \in DOMAIN payload /\ name \in payload[key]

\* the gateway request of call i of dispatch k has been built
Built(k, i) == i <= Len(disps[k].calls) /\ disps[k].st[i] \in {"gateway", "followup", "done", "failed"}

\* C22: for each function call, every argument whose name is that of a
\* declared parameter is in the payload map of that parameter's declared
\* location and in no other map; an argument that matches no declared
\* parameter is in no map; a map that got no argument is not in the payload.
C22_ArgumentsClassified ==
    \A k \in 1..Len(disps), i \in 1..MaxCalls :
        Built(k, i) =>
            LET payload == disps[k].payload[i] IN
            /\ \A name \in disps[k].args[i], parameter \in Parameters :
                  parameter.name = name =>
                      \A key \in PayloadKeys :
                          InMap(payload, key, name) <=> key = MapOf(parameter.in)
            /\ \A name \in disps[k].args[i] :
                  (\A parameter \in Parameters : parameter.name # name) =>
                      \A key \in PayloadKeys : ~InMap(payload, key, name)
            /\ \A key \in DOMAIN payload : payload[key] # {}

\* -------------------------------------------------------- authentication
\* the settings fetchAnswer read for turn t
KeyOf(t) == t.auth[1]

ProxyOf(t) == t.auth[2]

PasswordOf(t) == t.auth[3]

\* C23 as stated: with a non-empty apiKey the request carries that key and
\* its base URL is the proxy or unset, never the default gateway path;
\* otherwise it carries the signed token of the password and the base URL is
\* the default gateway path.
C23_Original ==
    \A t \in 1..Len(turns) :
        IF KeyOf(turns[t]) # NoKey
        THEN /\ turns[t].config.apiKey = KeyOf(turns[t])
             /\ turns[t].config.baseUrl \in {ProxyOf(turns[t]), NoBaseUrl}
             /\ turns[t].config.baseUrl # DefaultBaseUrl
        ELSE /\ turns[t].config.apiKey = encodeToken(PasswordOf(turns[t]))
             /\ turns[t].config.baseUrl = DefaultBaseUrl

\* C23 amended: with a non-empty apiKey the request carries that key and its
\* base URL is the caller's proxy when one is set (whatever it is, the
\* default gateway path included) and unset otherwise; with an empty apiKey
\* the request carries the signed token of the password as its key and the
\* base URL is the default gateway path, whatever the proxy setting.
C23_OneAuthPath ==
    \A t \in 1..Len(turns) :
        IF KeyOf(turns[t]) # NoKey
        THEN /\ turns[t].config.apiKey = KeyOf(turns[t])
             /\ turns[t].config.baseUrl =
                    IF ProxyOf(turns[t]) # NoProxy THEN ProxyOf(turns[t]) ELSE NoBaseUrl
        ELSE /\ turns[t].config.apiKey = encodeToken(PasswordOf(turns[t]))
             /\ turns[t].config.baseUrl = DefaultBaseUrl

\* C23 witness: one run has issued the request of a turn with the token and
\* the default path although a proxy was set, a follow-up request with the
\* key through the proxy, and a summarization request with the key and no
\* base URL.
C23_Witness ==
    \E t1, t2, t3 \in 1..Len(turns) :
        /\ turns[t1].kind = "submit" /\ KeyOf(turns[t1]) = NoKey
        /\ ProxyOf(turns[t1]) # NoProxy /\ turns[t1].config.baseUrl = DefaultBaseUrl
        /\ turns[t2].kind = "followup" /\ KeyOf(turns[t2]) # NoKey
        /\ turns[t2].config.baseUrl = "https://proxy"
        /\ turns[t3].kind = "summary" /\ turns[t3].config.apiKey = "key"
        /\ turns[t3].config.baseUrl = NoBaseUrl

\* ------------------------------------------------------------- removals
\* ms is the beginning of ns: ns is ms with messages appended, or ms
IsPrefix(ms, ns) == Len(ms) <= Len(ns) /\ SubSeq(ns, 1, Len(ms)) = ms

\* the error path runs in this step
ErrorStep == Len(errLog') = Len(errLog) + 1

\* the greatest index of a model-role message of ms, 0 when there is none
LastModel(ms) ==
    IF \E i \in 1..Len(ms) : ms[i].role = "model"
    THEN CHOOSE i \in 1..Len(ms) :
             ms[i].role = "model" /\ \A j \in (i + 1)..Len(ms) : ms[j].role # "model"
    ELSE 0

\* handleCleanMessage runs in this step
CleanStep ==
    /\ messages' = <<>>
    /\ errorMessage' = NoError
    /\ UNCHANGED <<turns, disps, errLog, nextId>>

NoTarget(ms, id) == id = ErrorId \/ FindIndex(ms, id) = 0

\* C25: handleResubmit('error'), and handleResubmit of an id that no message
\* has, remove no message and issue a fresh turn whose request is the log as
\* it stands; the error message is empty when that request has started.
C25_ResubmitError ==
    [][(Resubmitted /\ NoTarget(messages, Last(turns').target)) =>
          /\ messages' = messages
          /\ Last(turns').request = [prompts |-> <<>>, msgs |-> Ids(messages)]
          /\ Last(turns').pc = "requesting"
          /\ Len(turns') = Len(turns) + 1
          /\ errorMessage' = NoError]_vars

\* C25 witness: the error path has revoked a message and shown an error, and
\* the turn regenerated from the error item carries the log that was left
C25_Witness ==
    \E t \in 2..Len(turns) :
        /\ turns[t].kind = "resubmit" /\ turns[t].target = ErrorId
        /\ errLog # <<>> /\ Last(errLog).removed # 0
        /\ ~IdIn(Last(errLog).removed, messages)
        /\ turns[t].request.msgs = turns[t].before
        /\ turns[t].before # <<>>
        /\ errorMessage = NoError

\* ------------------------------------------------------ follow-up request
\* the follow-up turn of call i of dispatch k is issued in this step
FollowUpIssued(k, i) ==
    /\ i <= Len(disps[k].calls)
    /\ disps[k].st[i] = "gateway"
    /\ disps'[k].st[i] = "followup"

\* C26: the follow-up turn of a call carries the log as it stands right
\* after the placeholder of the call was appended, minus that trailing
\* placeholder: the last message of the request is the function-role
\* response of this call, and the placeholder of the call is not part of
\* the request.
C26_FollowUpRequest ==
    [][\A k \in 1..Len(disps), i \in 1..MaxCalls :
          FollowUpIssued(k, i) =>
              LET req == Last(turns').request.msgs IN
              /\ Len(turns') = Len(turns) + 1
              /\ Last(turns').kind = "followup"
              /\ Last(turns').request.prompts = <<>>
              /\ Last(messages').id = disps'[k].ph[i]
              /\ Last(messages').role = "model" /\ Last(messages').text = <<>>
              /\ req = Ids(Front(messages'))
              /\ Front(Front(messages')) = messages
              /\ Last(req) = disps'[k].resp[i]
              /\ messages'[Len(messages') - 1].role = "function"
              /\ messages'[Len(messages') - 1].call = disps[k].calls[i]
              /\ disps'[k].ph[i] \notin Range(req)]_vars

\* C26 witness: the follow-up turn of the second call of a batch has been
\* issued, with the response of that call last and the call-records and
\* responses of both calls in its request
C26_Witness ==
    \E k \in 1..Len(disps) :
        /\ Len(disps[k].calls) = 2
        /\ disps[k].fu[2] # 0
        /\ LET req == turns[disps[k].fu[2]].request.msgs IN
           /\ Last(req) = disps[k].resp[2]
           /\ {disps[k].rec[1], disps[k].resp[1], disps[k].rec[2]} \subseteq Range(req)
           /\ disps[k].ph[2] \notin Range(req)

\* ------------------------------------------------------------- liveness
\* the tasks a run can enqueue: a statement with each chunk and one at the
\* end of each stream
TaskIds == 1..(SpeechChunks + SpeechTurns)

\* task j has settled, or empty() has taken it out of its queue
Settled(j) == j <= Len(tasks) /\ (tasks[j].settled # "no" \/ tasks[j].pc = "dropped")

\* C27: every speech task enqueued eventually settles (or is taken out of
\* the queue by empty()), whatever the synthesis call returns.
C27_TasksSettle == \A j \in TaskIds : (j <= Len(tasks)) ~> Settled(j)

\* ------------------------------------------------- what the error path removes
\* The message that belongs to the caller of the error path: the call-record
\* of the call for a dispatch, the placeholder of the call for a follow-up
\* turn, none (0) for a turn of handleSubmit or handleResubmit.
OwnMessage(by) ==
    IF by[1] = "disp" THEN disps'[by[2]].rec[by[3]]
    ELSE IF turns[by[2]].kind = "followup"
         THEN disps[turns[by[2]].disp].ph[turns[by[2]].call]
         ELSE 0

\* C28: the error path removes at most one message, never a user or function
\* message, and only the model message (placeholder or call-record) of the
\* turn or dispatch that failed; a message committed by an earlier turn stays.
C28_ErrorRemovesOwn ==
    [][ErrorStep =>
          LET e == Last(errLog') IN
          /\ Len(messages') >= Len(messages) - 1
          /\ e.removed # 0 =>
                /\ e.removed = OwnMessage(e.by)
                /\ \A j \in 1..Len(messages) :
                      messages[j].id = e.removed => messages[j].role = "model"
          /\ \A j \in 1..Len(messages) :
                messages[j].id # OwnMessage(e.by) => IdIn(messages[j].id, messages')]_vars

\* C29: in voice mode, after every handleSubmit the status eventually leaves
\* 'thinkng': it becomes 'silence' or 'talking', whether the turn completes,
\* dispatches function calls or its stream call fails.
C29_LeavesThinking ==
    (talkMode = "voice" /\ status = "thinkng") ~> (status \in {"silence", "talking"})

====
